---- MODULE Spec2Model ----
(***************************************************************************)
(* A model of midi2tja's chart conversion (src/midi_to_tja.py):            *)
(*   - the lane assignor: main.note_on / main.note_off driven by the raw   *)
(*     note event loop, followed by the regeneration of note-on/off pairs  *)
(*     (specification LaneSpec);                                           *)
(*   - the measure quantizer: ChartState.scan_chart / scan_measure, run    *)
(*     once silently and once writing, over one merged timeline            *)
(*     (specification Spec).                                               *)
(* Python indices are kept 0-based; sequences are 1-based, so the element  *)
(* of list l at Python index i is l[i + 1].                                *)
(***************************************************************************)
EXTENDS Integers, Sequences, FiniteSets, TLC

VARIABLES
    NOTE_SYMBOL,      \* the global NOTE_SYMBOL (args.note)
    ticks_per_beat,   \* mid.ticks_per_beat
    ticks_gap,        \* main's ticks_gap
    \* ---- lane assignor ----
    lane_pc,          \* "raw": in the raw note event loop; "done": regenerated
    raw_count,        \* number of raw note events consumed so far
    raw_tick,         \* tick_abs of the last raw note event (the list is sorted)
    notes,            \* every ChartEvent made by note_on, in creation order
    on_notes,         \* channel -> list of references (indices into notes)
    note_events,      \* (channel, polypos) -> list of references into notes
    new_events,       \* (channel, polypos) -> regenerated list of ChartEvents
    last_op,          \* what the last raw event did (the locals of the handlers)
    \* ---- measure quantizer ----
    pc,               \* position in main's output loop for the lane
    timing_events,    \* the sorted timing events
    lane_events,      \* the lane's events (note_events[(ch, poly)])
    events,           \* merged_events; usec_abs / usec_end_abs are written by scans
    chart_state,      \* the baseline ChartState
    st,               \* the ChartState of the running scan (a copy of the baseline)
    i,                \* scan_chart's loop index
    i_measure_begin,  \* scan_chart's i_measure_begin
    tja,              \* the text written so far, as a list of tokens
    scan_balloons,    \* chart_scan_state.balloons as read after the silent scan
    flushed,          \* the locals of the last scan_measure call
    nflushed,         \* number of scan_measure calls of the running scan
    scan_log,         \* what each scan_measure call of the running scan decided
    silent_log        \* scan_log of the silent scan, kept for the writing scan

laneVars == <<lane_pc, raw_count, raw_tick, notes, on_notes, note_events,
              new_events, last_op>>
scanVars == <<pc, timing_events, lane_events, events, chart_state, st, i,
              i_measure_begin, tja, scan_balloons, flushed, nflushed,
              scan_log, silent_log>>
vars == <<NOTE_SYMBOL, ticks_per_beat, ticks_gap, laneVars, scanVars>>

(***************************************************************************)
(* Bounds of the model.                                                    *)
(***************************************************************************)
MaxRaw == 5        \* raw note events fed to the lane assignor
MaxRawTick == 3    \* largest tick of a raw note event
MaxTick == 4       \* largest tick of an event of a scanned timeline
MaxTiming == 2     \* timing events of a scanned timeline
MaxLaneNotes == 2  \* notes of a scanned lane
MaxSilenceTick == 9  \* largest tick of a timing event of a lane without notes

Max(a, b) == IF a >= b THEN a ELSE b
Min(a, b) == IF a <= b THEN a ELSE b

\* A value not yet assigned (never compared with an assigned one).
None == "None"

\* Optional[List]: <<>> is Python's None, <<l>> is the list l.
NoList == <<>>
SomeList(l) == <<l>>

(***************************************************************************)
(* Note symbol classes.                                                    *)
(***************************************************************************)
KNOWN_NOTES == {"0", "1", "2", "3", "4", "5", "6", "7", "9",
                "A", "B", "C", "D", "F", "G", "H", "I"}
LONG_NOTES == {"5", "6", "7", "9", "D", "H", "I"}
BALLOON_NOTES == {"7", "9", "D"}

is_long_note(sym) == sym \in LONG_NOTES
is_balloon_note(sym) == sym \in BALLOON_NOTES

(***************************************************************************)
(* ticks_gap = int(4 * ticks_per_beat * long_gap) for long notes, else 0.  *)
(* long_gap is the fraction num/den (positive; int() is then the floor).   *)
(***************************************************************************)
\* A gap that is applied to hit notes as well.
TicksGap_AllNotes(sym, tpb, num, den) == (4 * tpb * num) \div den

TicksGap(sym, tpb, num, den) ==
    IF is_long_note(sym) THEN (4 * tpb * num) \div den ELSE 0

(***************************************************************************)
(* The lane assignor.                                                      *)
(***************************************************************************)
Channels == {0}
Pitches == {60, 62}
Velocities == {0, 64}
RawMsgs == [type : {"note_on", "note_off"}, channel : Channels,
            note : Pitches, velocity : Velocities]
LongGaps == {<<1, 192>>, <<1, 4>>, <<1, 2>>}
LaneSymbols == {"1", "7"}

\* A note_on that leaves the new event's end at its start, without the gap.
NewNoteEvent_EndAtStart(msg, tick, gap) ==
    [msg |-> msg, tick_abs |-> tick, tick_end_abs |-> tick,
     usec_abs |-> -1, usec_end_abs |-> -1]

\* ChartEvent(msg, tick) followed by note_on's two assignments.
NewNoteEvent(msg, tick, gap) ==
    [msg |-> msg, tick_abs |-> tick, tick_end_abs |-> tick + gap,
     usec_abs |-> -1, usec_end_abs |-> -1]

\* "cut same note": the copy e_ of occupant e that note_on examines.
CutSame(e, msg, tick, gap) ==
    IF e.msg.note = msg.note
    THEN LET e1 == IF e.usec_end_abs = -1
                   THEN [e EXCEPT !.tick_end_abs = tick, !.usec_end_abs = -2]
                   ELSE e
         IN [e1 EXCEPT !.tick_end_abs =
                 Max(e1.tick_abs + gap, Min(e1.tick_end_abs, tick - gap))]
    ELSE e

\* A free check that looks only at whether the occupant is closed.
IsFreeSlot_ClosedOnly(e_, tick) == e_.usec_end_abs # -1

\* A free check that looks only at whether the occupant's end has passed.
IsFreeSlot_EndPassed(e_, tick) == tick > e_.tick_end_abs

\* "check if free"
IsFreeSlot(e_, tick) == e_.usec_end_abs # -1 /\ tick > e_.tick_end_abs

\* on_notes.setdefault(channel, [])
SetDefault(d, k) == IF k \in DOMAIN d THEN d ELSE d @@ (k :> <<>>)

\* note_events.setdefault(key, []).append(id)
AppendTo(d, k, id) ==
    IF k \in DOMAIN d THEN [d EXCEPT ![k] = Append(@, id)]
    ELSE d @@ (k :> <<id>>)

SetMin(S) == CHOOSE x \in S : \A y \in S : x <= y
SetMax(S) == CHOOSE x \in S : \A y \in S : x >= y

\* main.note_on on the assignor state S = [notes, on_notes, note_events, op].
note_on(S, msg, tick, gap, sym) ==
    LET on1 == SetDefault(S.on_notes, msg.channel)
        channel_on_notes == on1[msg.channel]
        id == Len(S.notes) + 1
        event == NewNoteEvent(msg, tick, gap)
        free == {k \in 1..Len(channel_on_notes) :
                    IsFreeSlot(CutSame(S.notes[channel_on_notes[k]], msg, tick, gap), tick)}
    IN IF free # {}
       THEN LET k == SetMin(free)
                old == channel_on_notes[k]
                e_ == CutSame(S.notes[old], msg, tick, gap)
            IN [notes |-> Append([S.notes EXCEPT ![old].tick_end_abs = e_.tick_end_abs,
                                                 ![old].usec_end_abs = e_.usec_end_abs], event),
                on_notes |-> [on1 EXCEPT ![msg.channel][k] = id],
                note_events |-> AppendTo(S.note_events, <<msg.channel, k - 1>>, id),
                op |-> [kind |-> "on", id |-> id, polypos |-> k - 1, reused |-> TRUE,
                        old |-> old, closed |-> 0]]
       ELSE LET polypos == Len(channel_on_notes)
            IN [notes |-> Append(S.notes, event),
                on_notes |-> IF is_long_note(sym)
                             THEN [on1 EXCEPT ![msg.channel] = Append(@, id)]
                             ELSE on1,
                note_events |-> IF is_long_note(sym) \/ polypos = 0
                                THEN AppendTo(S.note_events, <<msg.channel, polypos>>, id)
                                ELSE S.note_events,
                op |-> [kind |-> "on", id |-> id, polypos |-> polypos, reused |-> FALSE,
                        old |-> 0, closed |-> 0]]

\* A note_off that takes the note-off's tick as the end, without the max.
NoteOffEnd_RawTick(e, tick, gap) == tick

\* "set end" of note_off (line 280).
NoteOffEnd(e, tick, gap) == Max(e.tick_abs + gap, tick)

\* main.note_off
note_off(S, msg, tick, gap) ==
    IF msg.channel \notin DOMAIN S.on_notes
    THEN S
    ELSE LET channel_on_notes == S.on_notes[msg.channel]
             match == {k \in 1..Len(channel_on_notes) :
                          /\ S.notes[channel_on_notes[k]].usec_end_abs = -1
                          /\ S.notes[channel_on_notes[k]].msg.note = msg.note}
         IN IF match = {}
            THEN S
            ELSE LET e == channel_on_notes[SetMax(match)]
                 IN [S EXCEPT !.notes[e].tick_end_abs = NoteOffEnd(S.notes[e], tick, gap),
                              !.notes[e].usec_end_abs = -2,
                              !.op.closed = e]

\* The body of the raw note event loop for one event.
HandleRaw(S, msg, tick, gap, sym) ==
    LET S0 == [S EXCEPT !.op = [kind |-> "skip", id |-> 0, polypos |-> 0,
                                reused |-> FALSE, old |-> 0, closed |-> 0]]
    IN IF msg.type = "note_on" /\ msg.velocity > 0
       THEN LET S1 == note_on(S0, msg, tick, gap, sym)
            IN IF ~is_long_note(sym) THEN note_off(S1, msg, tick, gap) ELSE S1
       ELSE IF is_long_note(sym)
               /\ (msg.type = "note_off" \/ (msg.type = "note_on" /\ msg.velocity <= 0))
            THEN note_off([S0 EXCEPT !.op.kind = "off"], msg, tick, gap)
            ELSE S0

\* "regenerate note-on & off events" for one list of note_events.
RECURSIVE RegenerateList(_, _)
RegenerateList(ns, ids) ==
    IF ids = <<>> THEN <<>>
    ELSE LET e == ns[Head(ids)]
         IN (IF e.tick_end_abs > e.tick_abs
             THEN <<e, [msg |-> [type |-> "note_off", channel |-> e.msg.channel,
                                 note |-> e.msg.note, velocity |-> 64],
                        tick_abs |-> e.tick_end_abs, tick_end_abs |-> -1,
                        usec_abs |-> -1, usec_end_abs |-> -1]>>
             ELSE <<>>) \o RegenerateList(ns, Tail(ids))

\* Lines 295-309: regeneration (long notes only), then the one empty chart.
Regenerated(ns, ne, sym) ==
    LET r == IF is_long_note(sym)
             THEN [k \in DOMAIN ne |-> RegenerateList(ns, ne[k])]
             ELSE [k \in DOMAIN ne |-> [j \in 1..Len(ne[k]) |-> ns[ne[k][j]]]]
    IN IF DOMAIN r = {} THEN (<<0, 0>> :> <<>>) ELSE r

(***************************************************************************)
(* Actions of the lane assignor.                                           *)
(***************************************************************************)
NoOp == [kind |-> "none", id |-> 0, polypos |-> 0, reused |-> FALSE,
         old |-> 0, closed |-> 0]

ScanIdle ==
    /\ pc = "idle"
    /\ timing_events = <<>>
    /\ lane_events = <<>>
    /\ events = <<>>
    /\ chart_state = None
    /\ st = None
    /\ i = 0
    /\ i_measure_begin = 0
    /\ tja = <<>>
    /\ scan_balloons = NoList
    /\ flushed = None
    /\ nflushed = 0
    /\ scan_log = <<>>
    /\ silent_log = <<>>

LaneInit ==
    /\ NOTE_SYMBOL \in LaneSymbols
    /\ ticks_per_beat = 1
    /\ \E g \in LongGaps : ticks_gap = TicksGap(NOTE_SYMBOL, ticks_per_beat, g[1], g[2])
    /\ lane_pc = "raw"
    /\ raw_count = 0
    /\ raw_tick = 0
    /\ notes = <<>>
    /\ on_notes = <<>>
    /\ note_events = <<>>
    /\ new_events = <<>>
    /\ last_op = NoOp
    /\ ScanIdle

\* One pass of "for e in raw_note_events" (lines 284-293); the list is sorted
\* by tick_abs, so the event's tick is not before the previous one's.
RawNoteEvent ==
    /\ lane_pc = "raw"
    /\ raw_count < MaxRaw
    /\ \E msg \in RawMsgs, tick \in raw_tick..MaxRawTick :
          LET S == HandleRaw([notes |-> notes, on_notes |-> on_notes,
                              note_events |-> note_events, op |-> NoOp],
                             msg, tick, ticks_gap, NOTE_SYMBOL)
          IN /\ notes' = S.notes
             /\ on_notes' = S.on_notes
             /\ note_events' = S.note_events
             /\ last_op' = S.op
             /\ raw_tick' = tick
    /\ raw_count' = raw_count + 1
    /\ UNCHANGED <<lane_pc, new_events, NOTE_SYMBOL, ticks_per_beat, ticks_gap, scanVars>>

\* The raw events are exhausted: lines 295-309.
Regenerate ==
    /\ lane_pc = "raw"
    /\ lane_pc' = "done"
    /\ new_events' = Regenerated(notes, note_events, NOTE_SYMBOL)
    /\ last_op' = NoOp
    /\ UNCHANGED <<raw_count, raw_tick, notes, on_notes, note_events,
                   NOTE_SYMBOL, ticks_per_beat, ticks_gap, scanVars>>

LaneNext == RawNoteEvent \/ Regenerate

LaneSpec == LaneInit /\ [][LaneNext]_vars

(***************************************************************************)
(* The lane assignor fed with note-ons only, at the ticks of a file with   *)
(* 96 or 480 ticks per beat: no note is closed before the track ends.      *)
(***************************************************************************)
OverlapTicksPerBeats == {96, 480}
OverlapTicks == {0, 50, 100}

OverlapInit ==
    /\ NOTE_SYMBOL \in LaneSymbols
    /\ ticks_per_beat \in OverlapTicksPerBeats
    /\ \E g \in LongGaps : ticks_gap = TicksGap(NOTE_SYMBOL, ticks_per_beat, g[1], g[2])
    /\ lane_pc = "raw"
    /\ raw_count = 0
    /\ raw_tick = 0
    /\ notes = <<>>
    /\ on_notes = <<>>
    /\ note_events = <<>>
    /\ new_events = <<>>
    /\ last_op = NoOp
    /\ ScanIdle

\* One pass of "for e in raw_note_events" (lines 284-293) for a note-on.
RawNoteOn ==
    /\ lane_pc = "raw"
    /\ raw_count < 2
    /\ \E pitch \in Pitches, tick \in {t \in OverlapTicks : t >= raw_tick} :
          LET S == HandleRaw([notes |-> notes, on_notes |-> on_notes,
                              note_events |-> note_events, op |-> NoOp],
                             [type |-> "note_on", channel |-> 0, note |-> pitch,
                              velocity |-> 64],
                             tick, ticks_gap, NOTE_SYMBOL)
          IN /\ notes' = S.notes
             /\ on_notes' = S.on_notes
             /\ note_events' = S.note_events
             /\ last_op' = S.op
             /\ raw_tick' = tick
    /\ raw_count' = raw_count + 1
    /\ UNCHANGED <<lane_pc, new_events, NOTE_SYMBOL, ticks_per_beat, ticks_gap, scanVars>>

OverlapNext == RawNoteOn \/ Regenerate

OverlapSpec == OverlapInit /\ [][OverlapNext]_vars

(***************************************************************************)
(* Properties of the lane assignor (LaneSpec).                             *)
(***************************************************************************)
SustainMode == is_long_note(NOTE_SYMBOL)

\* The notes of lane key, in list order.
LaneNotes(key) == [j \in 1..Len(note_events[key]) |-> notes[note_events[key][j]]]

\* The open (not yet closed) occupants of channel ch's slots.
OpenOccupants(ch, pitch) ==
    IF ch \notin DOMAIN on_notes THEN {}
    ELSE {on_notes[ch][k] : k \in {k \in 1..Len(on_notes[ch]) :
             /\ notes[on_notes[ch][k]].usec_end_abs = -1
             /\ notes[on_notes[ch][k]].msg.note = pitch}}

\* Note id was regenerated as a note-on immediately followed by a note-off at
\* tick off.
RegeneratedAsPair(key, id, off) ==
    \E j \in 1..(Len(new_events[key]) - 1) :
        /\ new_events[key][j] = notes[id]
        /\ new_events[key][j + 1].msg.type = "note_off"
        /\ new_events[key][j + 1].msg.note = notes[id].msg.note
        /\ new_events[key][j + 1].tick_abs = off

RegeneratedAtAll(key, id) ==
    \E j \in 1..Len(new_events[key]) : new_events[key][j] = notes[id]

\* C3: in sustain mode the notes of every lane are ordered by start tick and
\* do not overlap: a note ends no later than the next note of its lane starts.
\* The regenerated list of a lane is therefore in ascending tick order.
C3_LanesOrderedDisjoint ==
    SustainMode =>
        /\ \A key \in DOMAIN note_events :
              \A j \in 1..(Len(note_events[key]) - 1) :
                  /\ LaneNotes(key)[j].tick_abs <= LaneNotes(key)[j + 1].tick_abs
                  /\ LaneNotes(key)[j].tick_end_abs <= LaneNotes(key)[j + 1].tick_abs
        /\ \A key \in DOMAIN new_events :
              \A j \in 1..(Len(new_events[key]) - 1) :
                  new_events[key][j].tick_abs <= new_events[key][j + 1].tick_abs

\* A lane holding two notes, the second in a reused slot, beside another lane.
C3_Witness ==
    /\ SustainMode
    /\ lane_pc = "done"
    /\ \E key \in DOMAIN note_events :
          /\ Len(note_events[key]) >= 2
          /\ LaneNotes(key)[1].tick_end_abs > LaneNotes(key)[1].tick_abs
          /\ Len(new_events[key]) = 4
    /\ Cardinality(DOMAIN note_events) >= 2

\* C4 (as claimed): for consecutive notes of a lane in sustain mode, the
\* earlier note's final end tick is at most the later note's start tick minus
\* ticks_gap.
C4_GapBeforeNextNote ==
    (SustainMode /\ lane_pc = "done") =>
        \A key \in DOMAIN note_events :
            \A j \in 1..(Len(note_events[key]) - 1) :
                LaneNotes(key)[j].tick_end_abs
                    <= LaneNotes(key)[j + 1].tick_abs - ticks_gap

\* C5: every sustained note has end tick >= start tick + ticks_gap, at every
\* point of the raw event loop, and so has every note-on/note-off pair handed
\* to the measure quantizer.
C5_MinimumLength ==
    SustainMode =>
        /\ \A id \in 1..Len(notes) :
              notes[id].tick_end_abs >= notes[id].tick_abs + ticks_gap
        /\ \A key \in DOMAIN new_events :
              \A j \in 1..Len(new_events[key]) :
                  new_events[key][j].msg.type = "note_on" =>
                      /\ j < Len(new_events[key])
                      /\ new_events[key][j + 1].msg.type = "note_off"
                      /\ new_events[key][j + 1].tick_abs
                             >= new_events[key][j].tick_abs + ticks_gap

\* A closed note (by a note-off or by a same-pitch cut) held at exactly the
\* minimum length has reached the quantizer.
C5_Witness ==
    /\ SustainMode
    /\ lane_pc = "done"
    /\ ticks_gap >= 1
    /\ \E key \in DOMAIN note_events : \E j \in 1..Len(note_events[key]) :
          /\ LaneNotes(key)[j].usec_end_abs = -2
          /\ LaneNotes(key)[j].tick_end_abs = LaneNotes(key)[j].tick_abs + ticks_gap
          /\ RegeneratedAsPair(key, note_events[key][j], LaneNotes(key)[j].tick_end_abs)

\* The slots of channel ch that the claimed reuse rule calls reusable for a
\* note-on of msg at tick: the occupant (after the same-pitch cut) has ended
\* at least ticks_gap ticks before tick.
ClaimedReusable(ch, msg, tick) ==
    IF ch \notin DOMAIN on_notes THEN {}
    ELSE {k \in 1..Len(on_notes[ch]) :
             LET e_ == CutSame(notes[on_notes[ch][k]], msg, tick, ticks_gap)
             IN e_.usec_end_abs # -1 /\ e_.tick_end_abs <= tick - ticks_gap}

\* C6 (as claimed): in sustain mode a note-on goes to the lowest-indexed slot
\* whose occupant has ended at least ticks_gap ticks before the note's start,
\* and a new slot is appended only when there is no such slot.
C6_ReuseLowestFreeSlot ==
    [][(SustainMode /\ last_op'.kind = "on") =>
         LET msg == notes'[last_op'.id].msg
             R == ClaimedReusable(msg.channel, msg, raw_tick')
             n == IF msg.channel \in DOMAIN on_notes
                  THEN Len(on_notes[msg.channel]) ELSE 0
         IN IF R # {}
            THEN last_op'.reused /\ last_op'.polypos = SetMin(R) - 1
            ELSE ~last_op'.reused /\ last_op'.polypos = n]_vars

\* No two notes of one channel with the same pitch overlap in time.
NoSamePitchOverlap ==
    \A a, b \in 1..Len(notes) :
        (a < b /\ notes[a].msg.channel = notes[b].msg.channel
               /\ notes[a].msg.note = notes[b].msg.note)
            => \/ notes[a].tick_end_abs <= notes[b].tick_abs
               \/ notes[b].tick_end_abs <= notes[a].tick_abs

\* C7 (as claimed): a note-on at tick for the channel and pitch of a slot
\* occupant that is still open sets that occupant's end tick to
\* max(start + gap, min(rawEnd, tick - gap)), the raw end of an open note
\* being the tick of the cut; and no two same-pitch notes of a channel overlap.
C7_SamePitchOvertake ==
    [][(SustainMode /\ last_op'.kind = "on") =>
         LET msg == notes'[last_op'.id].msg
         IN /\ \A e \in OpenOccupants(msg.channel, msg.note) :
                  notes'[e].tick_end_abs =
                      Max(notes[e].tick_abs + ticks_gap,
                          Min(raw_tick', raw_tick' - ticks_gap))
            /\ NoSamePitchOverlap']_vars

\* C8 (as claimed): a note-off closes the most recently opened of the open
\* notes of its channel and pitch (notes are numbered in opening order).
C8_NoteOffClosesMostRecent ==
    [][(SustainMode /\ last_op'.kind = "off" /\ last_op'.closed # 0) =>
         LET c == notes[last_op'.closed]
         IN last_op'.closed = SetMax(OpenOccupants(c.msg.channel, c.msg.note))]_vars

\* The lane (key of note_events) that holds note id.
LaneOf(id) ==
    CHOOSE key \in DOMAIN note_events :
        \E j \in 1..Len(note_events[key]) : note_events[key][j] = id

\* C9 (as claimed): a sustain-mode note still open when the track ends reaches
\* the quantizer as a note-on/note-off pair closing at start + ticks_gap,
\* whatever ticks_gap is.
C9_UnterminatedNeverDropped ==
    (SustainMode /\ lane_pc = "done") =>
        \A id \in 1..Len(notes) :
            notes[id].usec_end_abs = -1 =>
                RegeneratedAsPair(LaneOf(id), id, notes[id].tick_abs + ticks_gap)

\* C9 (amended): a sustain-mode note still open when the track ends reaches
\* the quantizer as a pair closing at start + ticks_gap when ticks_gap >= 1;
\* when ticks_gap = 0 its end equals its start and it is discarded.
C9_UnterminatedClosedAtMinimum ==
    (SustainMode /\ lane_pc = "done") =>
        \A id \in 1..Len(notes) :
            notes[id].usec_end_abs = -1 =>
                IF ticks_gap >= 1
                THEN RegeneratedAsPair(LaneOf(id), id, notes[id].tick_abs + ticks_gap)
                ELSE ~RegeneratedAtAll(LaneOf(id), id)

\* The track ended with a note still open behind a closed one of its channel.
C9_Witness ==
    /\ SustainMode
    /\ lane_pc = "done"
    /\ ticks_gap >= 1
    /\ \E id \in 1..Len(notes) :
          /\ notes[id].usec_end_abs = -1
          /\ RegeneratedAsPair(LaneOf(id), id, notes[id].tick_abs + ticks_gap)
    /\ \E id \in 1..Len(notes) : notes[id].usec_end_abs = -2

(***************************************************************************)
(* The timing model: ChartState.                                           *)
(***************************************************************************)
\* bpm2tempo(120)
DefaultTempo == 500000

\* A state that starts in 3/4.
ChartState_ThreeFour(tpb) ==
    [ticks_per_beat |-> tpb, tsign_upper |-> 3, tsign_lower |-> 4,
     usec_per_beat |-> DefaultTempo, i_measure_begin |-> 0,
     tick_measure_begin |-> 0, tick_checkpoint |-> 0, usec_checkpoint |-> 0,
     balloons |-> NoList]

\* ChartState.__init__
ChartState(tpb) ==
    [ticks_per_beat |-> tpb, tsign_upper |-> 4, tsign_lower |-> 4,
     usec_per_beat |-> DefaultTempo, i_measure_begin |-> 0,
     tick_measure_begin |-> 0, tick_checkpoint |-> 0, usec_checkpoint |-> 0,
     balloons |-> NoList]

\* get_ticks_per_measure divides by tsign_lower: it raises ZeroDivisionError
\* when the signature's denominator is 0.
ticks_per_measure_raises(s) == s.tsign_lower = 0

get_ticks_per_measure(s) ==
    Max(1, (s.ticks_per_beat * 4 * s.tsign_upper) \div s.tsign_lower)

get_tick_measure_end(s) == s.tick_measure_begin + get_ticks_per_measure(s)

\* A conversion that rounds up instead of down.
get_usec_at_RoundedUp(s, tick) ==
    s.usec_checkpoint
        - ((s.tick_checkpoint - tick) * s.usec_per_beat) \div s.ticks_per_beat

get_usec_at(s, tick) ==
    s.usec_checkpoint
        + ((tick - s.tick_checkpoint) * s.usec_per_beat) \div s.ticks_per_beat

\* A tempo change applied without re-anchoring.
advance_usec_Skipped(s, tick) == s

advance_usec(s, tick) ==
    [s EXCEPT !.usec_checkpoint = get_usec_at(s, tick), !.tick_checkpoint = tick]

advance_measure(s) == [s EXCEPT !.tick_measure_begin = get_tick_measure_end(s)]

(***************************************************************************)
(* merge_sorted with main's key (tick_abs, 1 for a note event else 0).     *)
(***************************************************************************)
IsNoteType(type) == type \in {"note_on", "note_off"}

\* A key of the tick alone.
MergeKey_TickOnly(ev) == <<ev.tick_abs, 0>>

MergeKey(ev) == <<ev.tick_abs, IF IsNoteType(ev.msg.type) THEN 1 ELSE 0>>

\* Python's tuple comparison k1 < k2.
KeyLess(k1, k2) == k1[1] < k2[1] \/ (k1[1] = k2[1] /\ k1[2] < k2[2])

RECURSIVE merge_sorted(_, _)
merge_sorted(arr1, arr2) ==
    IF arr1 = <<>> THEN arr2
    ELSE IF arr2 = <<>> THEN arr1
    ELSE IF KeyLess(MergeKey(Head(arr1)), MergeKey(Head(arr2)))
         THEN <<Head(arr1)>> \o merge_sorted(Tail(arr1), arr2)
         ELSE <<Head(arr2)>> \o merge_sorted(arr1, Tail(arr2))

(***************************************************************************)
(* The measure quantizer: ChartState.scan_measure.                         *)
(***************************************************************************)
RECURSIVE Gcd(_, _)
Gcd(a, b) == IF b = 0 THEN a ELSE Gcd(b, a % b)

\* math.gcd(*tick_rels)
RECURSIVE GcdAll(_)
GcdAll(rels) == IF rels = <<>> THEN 0 ELSE Gcd(Head(rels), GcdAll(Tail(rels)))

\* The list comprehension of lines 109-113 over Python indices lo..hi-1.
RECURSIVE TickRels(_, _, _, _, _)
TickRels(evs, lo, hi, tick_beg, tick_end) ==
    IF lo >= hi THEN <<tick_end - tick_beg>>
    ELSE (IF evs[lo + 1].tick_abs > tick_beg
          THEN <<evs[lo + 1].tick_abs - tick_beg>> ELSE <<>>)
         \o TickRels(evs, lo + 1, hi, tick_beg, tick_end)

\* "remove duplications": drops an element equal to the one kept before it.
RECURSIVE RemoveDuplications(_)
RemoveDuplications(rels) ==
    IF Len(rels) <= 1 THEN rels
    ELSE IF rels[2] = rels[1]
         THEN RemoveDuplications(<<rels[1]>> \o SubSeq(rels, 3, Len(rels)))
         ELSE <<rels[1]>> \o RemoveDuplications(Tail(rels))

Zeros(n) == [j \in 1..n |-> "0"]

\* A run that writes the symbol without the padding cells after it.
CellRun_Unpadded(sym, n) == <<sym>>

\* note_symbol_last + (n - 1) * '0': a run of n cells.
CellRun(sym, n) == <<sym>> \o Zeros(n - 1)

\* emit(...): a no-op without a file.
Emit(out, toks, write) == IF write THEN out \o toks ELSE out

\* ensure_line_start()
EnsureLineStart(a, write) ==
    [a EXCEPT !.out = IF ~a.is_line_start THEN Emit(@, <<"\n">>, write) ELSE @,
              !.is_line_start = TRUE]

\* self.balloons[-1], a reference to an event (its place in events).
LastBalloon(s) == s.balloons[1][Len(s.balloons[1])]

\* A test that never finds a balloon open.
BalloonOpen_Never(a) == FALSE

\* self.balloons is not None and self.balloons[-1].usec_end_abs < 0
BalloonOpen(a) ==
    /\ a.st.balloons # NoList
    /\ a.events[LastBalloon(a.st)].usec_end_abs < 0

\* tempo2bpm(tempo) divides by the tempo: it raises ZeroDivisionError for 0.
tempo2bpm_raises(tempo) == tempo = 0

\* A note-on that keeps the event's usec_end_abs of an earlier scan.
MarkNotEnded_Keep(e) == e.usec_end_abs

\* "e.usec_end_abs = -1  # mark as not ended"
MarkNotEnded(e) == -1

\* The body of "for ievent in ievents" for Python index k; a holds the state,
\* the events and the locals of scan_measure; a.failed: an exception was raised.
ScanEvent(a, k, tick_beg, tick_gcd, sym, write) ==
    LET e == a.events[k + 1]
        tick_rel == e.tick_abs - tick_beg
        idiv == tick_rel \div tick_gcd
        a1 == IF idiv > a.idiv_last
              THEN [a EXCEPT !.out = Emit(@, CellRun(a.note_symbol_last,
                                                     idiv - a.idiv_last), write),
                             !.is_line_start = FALSE,
                             !.note_symbol_last = "0",
                             !.idiv_last = idiv]
              ELSE a
    IN IF e.msg.type = "time_signature"
       THEN LET a2 == EnsureLineStart(
                         [a1 EXCEPT !.st.tsign_upper = e.msg.numerator,
                                    !.st.tsign_lower = e.msg.denominator], write)
            IN [a2 EXCEPT !.out = Emit(@, <<"#MEASURE " \o ToString(e.msg.numerator)
                                             \o "/" \o ToString(e.msg.denominator),
                                            "\n">>, write)]
       ELSE IF e.msg.type = "set_tempo"
       THEN LET a2 == EnsureLineStart(
                         [a1 EXCEPT !.st = [advance_usec(a1.st, e.tick_abs)
                                               EXCEPT !.usec_per_beat = e.msg.tempo]],
                         write)
            IN IF tempo2bpm_raises(e.msg.tempo)
               THEN [a2 EXCEPT !.failed = TRUE]
               ELSE [a2 EXCEPT !.out = Emit(@, <<"#BPMCHANGE " \o ToString(e.msg.tempo),
                                                 "\n">>, write)]
       ELSE IF e.msg.type = "note_on" /\ ~is_long_note(sym)
       THEN [a1 EXCEPT !.note_symbol_last = sym,
                       !.events[k + 1].usec_abs = get_usec_at(a1.st, e.tick_abs),
                       !.events[k + 1].usec_end_abs = MarkNotEnded(e)]
       ELSE IF e.msg.type = "note_on" /\ ~BalloonOpen(a1)
       THEN [a1 EXCEPT !.note_symbol_last = sym,
                       !.events[k + 1].usec_abs = get_usec_at(a1.st, e.tick_abs),
                       !.events[k + 1].usec_end_abs = MarkNotEnded(e),
                       !.st.balloons = IF @ = NoList THEN SomeList(<<k + 1>>)
                                       ELSE SomeList(Append(@[1], k + 1))]
       ELSE IF e.msg.type = "note_off" /\ is_long_note(sym) /\ BalloonOpen(a1)
       THEN [a1 EXCEPT !.note_symbol_last = "8",
                       !.events[LastBalloon(a1.st)].usec_end_abs =
                           get_usec_at(a1.st, e.tick_abs)]
       ELSE a1

RECURSIVE ScanEvents(_, _, _, _, _, _, _)
ScanEvents(a, k, hi, tick_beg, tick_gcd, sym, write) ==
    IF k >= hi \/ a.failed THEN a
    ELSE ScanEvents(ScanEvent(a, k, tick_beg, tick_gcd, sym, write),
                    k + 1, hi, tick_beg, tick_gcd, sym, write)

\* "output measure end" (lines 172-175).
MeasureEnd(a, lo, hi, ncells, write) ==
    LET a1 == IF hi > lo /\ ncells > a.idiv_last
              THEN [a EXCEPT !.out = Emit(@, CellRun(a.note_symbol_last,
                                                     ncells - a.idiv_last), write)]
              ELSE a
    IN [a1 EXCEPT !.out = Emit(@, <<",", "\n">>, write)]

\* The run of scan_measure's body from its locals' initial values; an
\* exception leaves the loop and skips the measure end.
ScanBody(s, evs, lo, hi, tick_beg, tick_end, tick_gcd, sym, write) ==
    LET a0 == [st |-> s, events |-> evs, out |-> <<>>, is_line_start |-> TRUE,
               idiv_last |-> 0, note_symbol_last |-> "0", failed |-> FALSE]
        a1 == ScanEvents(a0, lo, hi, tick_beg, tick_gcd, sym, write)
    IN IF a1.failed THEN a1
       ELSE MeasureEnd(a1, lo, hi, (tick_end - tick_beg) \div tick_gcd, write)

\* scan_measure(events, range(lo, hi), tja) on state s: the state and events
\* after it, what it wrote, its locals, and whether it raised; text is what
\* the same call prints when it is given the file.
scan_measure(s, evs, lo, hi, sym, write) ==
    LET tick_beg == s.tick_measure_begin
        tick_end == get_tick_measure_end(s)
        tick_rels == RemoveDuplications(TickRels(evs, lo, hi, tick_beg, tick_end))
        tick_gcd == GcdAll(tick_rels)
        a2 == ScanBody(s, evs, lo, hi, tick_beg, tick_end, tick_gcd, sym, write)
    IN [st |-> a2.st, events |-> a2.events, out |-> a2.out,
        tick_beg |-> tick_beg, tick_end |-> tick_end, tick_gcd |-> tick_gcd,
        lo |-> lo, hi |-> hi, write |-> write, failed |-> a2.failed,
        text |-> IF write THEN a2.out
                 ELSE ScanBody(s, evs, lo, hi, tick_beg, tick_end, tick_gcd,
                               sym, TRUE).out]

(***************************************************************************)
(* Inputs of a scan: the sorted timing events and one lane's events.       *)
(***************************************************************************)
TicksPerBeats == {1, 2}
Signatures == {<<2, 4>>, <<6, 4>>, <<1, 8>>, <<4, 0>>}
Tempos == {333333, 0}
ScanSymbols == {"1", "7"}
TimingMsgs ==
    {[type |-> "time_signature", numerator |-> sg[1], denominator |-> sg[2]] :
        sg \in Signatures}
    \cup {[type |-> "set_tempo", tempo |-> t] : t \in Tempos}

\* ChartEvent(msg, tick_abs)
ChartEvent(msg, tick) ==
    [msg |-> msg, tick_abs |-> tick, tick_end_abs |-> -1,
     usec_abs |-> -1, usec_end_abs |-> -1]

SeqsUpTo(S, n) == UNION {[1..m -> S] : m \in 0..n}

\* timing_events after the sort by tick_abs.
TimingInputs ==
    {[j \in DOMAIN q |-> ChartEvent(q[j][1], q[j][2])] :
        q \in {q \in SeqsUpTo(TimingMsgs \X (0..MaxTick), MaxTiming) :
                  \A j \in 1..(Len(q) - 1) : q[j][2] <= q[j + 1][2]}}

LaneMsg == [type |-> "note_on", channel |-> 0, note |-> 69, velocity |-> 64]

\* A sustain-mode lane as the assignor leaves it: closed notes, each ending
\* after its start and before the next note of the lane starts, regenerated
\* into note-on/note-off pairs.
SustainLanes ==
    {RegenerateList([j \in DOMAIN q |->
                        [NewNoteEvent(LaneMsg, q[j][1], 0)
                            EXCEPT !.tick_end_abs = q[j][2], !.usec_end_abs = -2]],
                    [j \in DOMAIN q |-> j]) :
        q \in {q \in SeqsUpTo((0..MaxTick) \X (0..MaxTick), MaxLaneNotes) :
                  /\ \A j \in DOMAIN q : q[j][1] < q[j][2]
                  /\ \A j \in 1..(Len(q) - 1) : q[j][2] < q[j + 1][1]}}

\* A hit-mode lane: the note-ons of the channel, in tick order.
HitLanes ==
    {[j \in DOMAIN q |-> NewNoteEvent(LaneMsg, q[j], 0)] :
        q \in {q \in SeqsUpTo(0..MaxTick, MaxLaneNotes) :
                  \A j \in 1..(Len(q) - 1) : q[j] <= q[j + 1]}}

LaneInputs(sym) == IF is_long_note(sym) THEN SustainLanes ELSE HitLanes

(***************************************************************************)
(* main's output of one lane: the silent scan, then the writing scan.      *)
(***************************************************************************)
LaneIdle ==
    /\ lane_pc = "idle"
    /\ raw_count = 0
    /\ raw_tick = 0
    /\ notes = <<>>
    /\ on_notes = <<>>
    /\ note_events = <<>>
    /\ new_events = <<>>
    /\ last_op = NoOp

Init ==
    /\ NOTE_SYMBOL \in ScanSymbols
    /\ ticks_per_beat \in TicksPerBeats
    /\ ticks_gap = TicksGap(NOTE_SYMBOL, ticks_per_beat, 1, 192)
    /\ timing_events \in TimingInputs
    /\ lane_events \in LaneInputs(NOTE_SYMBOL)
    /\ pc = "start"
    /\ events = <<>>
    /\ chart_state = None
    /\ st = None
    /\ i = 0
    /\ i_measure_begin = 0
    /\ tja = <<>>
    /\ scan_balloons = NoList
    /\ flushed = None
    /\ nflushed = 0
    /\ scan_log = <<>>
    /\ silent_log = <<>>
    /\ LaneIdle

\* Lines 313-317: the tempo events at tick 0 seed the baseline tempo.
RECURSIVE SeedTempo(_, _)
SeedTempo(s, tevs) ==
    IF tevs = <<>> \/ Head(tevs).tick_abs > 0 THEN s
    ELSE SeedTempo(IF Head(tevs).msg.type = "set_tempo"
                   THEN [s EXCEPT !.usec_per_beat = Head(tevs).msg.tempo]
                   ELSE s,
                   Tail(tevs))

\* Lines 311-333: the baseline state, the header, the lane's heading and the
\* merged timeline; the BPM line raises on a baseline tempo of 0, after the
\* lines before it have been printed.
OpenChart ==
    /\ pc = "start"
    /\ chart_state' = SeedTempo(ChartState(ticks_per_beat), timing_events)
    /\ IF tempo2bpm_raises(chart_state'.usec_per_beat)
       THEN /\ tja' = <<"//", "\n", "TITLE:", "\n">>
            /\ events' = events
            /\ pc' = "failed"
       ELSE /\ tja' = <<"//", "\n", "TITLE:", "\n",
                        "BPM:" \o ToString(chart_state'.usec_per_beat), "\n",
                        "OFFSET:0", "\n", "\n", "\n", "// Channel", "\n">>
            /\ events' = merge_sorted(timing_events, lane_events)
            /\ pc' = "lane"
    /\ UNCHANGED <<timing_events, lane_events, st, i, i_measure_begin,
                   scan_balloons, flushed, nflushed, scan_log, silent_log,
                   NOTE_SYMBOL, ticks_per_beat, ticks_gap, laneVars>>

\* Lines 336-338: chart_scan_state = copy(chart_state), scan_chart begins.
BeginSilentScan ==
    /\ pc = "lane"
    /\ is_balloon_note(NOTE_SYMBOL)
    /\ st' = chart_state
    /\ i' = 0
    /\ i_measure_begin' = 0
    /\ flushed' = None
    /\ nflushed' = 0
    /\ scan_log' = <<>>
    /\ pc' = "silent"
    /\ UNCHANGED <<timing_events, lane_events, events, chart_state, tja,
                   scan_balloons, silent_log,
                   NOTE_SYMBOL, ticks_per_beat, ticks_gap, laneVars>>

Scanning == pc \in {"silent", "emit"}

\* chart_scan_state.balloons as main reads it: one entry per balloon record.
BalloonList(s, evs) ==
    IF s.balloons = NoList THEN NoList
    ELSE SomeList([j \in 1..Len(s.balloons[1]) |->
                      [note |-> evs[s.balloons[1][j]].msg.note,
                       usec_abs |-> evs[s.balloons[1][j]].usec_abs,
                       usec_end_abs |-> evs[s.balloons[1][j]].usec_end_abs]])

\* note_to_hz(note) for the pitches a whole number of octaves from A4 (69),
\* where 440 * 2 ** ((note - 69) / 12) is an integer (down to note 33).
note_to_hz(note) ==
    IF note >= 69 THEN 440 * 2 ^ ((note - 69) \div 12)
    ELSE 440 \div 2 ^ ((69 - note) \div 12)

\* round(num / den) as Python rounds: to the nearest, a half to the even.
round(num, den) ==
    LET q == num \div den
        r == num % den
    IN IF 2 * r > den \/ (2 * r = den /\ q % 2 = 1) THEN q + 1 ELSE q

\* A hit count taken from the whole seconds of the record's duration.
BalloonHits_WholeSeconds(b) ==
    Max(1, note_to_hz(b.note) * ((b.usec_end_abs - b.usec_abs) \div 1000000))

\* Lines 341-343: the hit count of one balloon record.
BalloonHits(b) ==
    Max(1, round(note_to_hz(b.note) * (b.usec_end_abs - b.usec_abs), 1000000))

\* ",".join(repr(v) for v in balloons)
RECURSIVE JoinHits(_)
JoinHits(bs) ==
    IF bs = <<>> THEN ""
    ELSE IF Len(bs) = 1 THEN ToString(BalloonHits(bs[1]))
    ELSE ToString(BalloonHits(bs[1])) \o "," \o JoinHits(Tail(bs))

\* What a scan_measure call decided: the measure, the unit, the text it
\* prints when given the file, and the balloon records after it.
Decided(r) ==
    [tick_beg |-> r.tick_beg, tick_end |-> r.tick_end, tick_gcd |-> r.tick_gcd,
     lo |-> r.lo, hi |-> r.hi, text |-> r.text, failed |-> r.failed,
     balloons |-> BalloonList(r.st, r.events)]

Flushed(r, last) ==
    [tick_beg |-> r.tick_beg, tick_end |-> r.tick_end, tick_gcd |-> r.tick_gcd,
     lo |-> r.lo, hi |-> r.hi, write |-> r.write, out |-> r.out, last |-> last,
     failed |-> r.failed]

\* The measure end cannot be computed: the while condition (line 182) or the
\* last scan_measure call (line 99) raises, and the conversion ends with what
\* has been printed.
RaiseAtMeasureEnd ==
    /\ Scanning
    /\ ticks_per_measure_raises(st)
    /\ pc' = "failed"
    /\ UNCHANGED <<st, i, events, i_measure_begin, tja, flushed, nflushed,
                   timing_events, lane_events, chart_state, scan_balloons,
                   scan_log, silent_log,
                   NOTE_SYMBOL, ticks_per_beat, ticks_gap, laneVars>>

\* One pass of scan_chart's while loop (lines 182-185); an exception raised by
\* scan_measure or by advance_measure ends the conversion with what has been
\* printed.
StepOverMeasure ==
    /\ Scanning
    /\ i < Len(events)
    /\ ~ticks_per_measure_raises(st)
    /\ get_tick_measure_end(st) <= events[i + 1].tick_abs
    /\ LET r == scan_measure(st, events, i_measure_begin, i, NOTE_SYMBOL, pc = "emit")
       IN /\ st' = IF r.failed \/ ticks_per_measure_raises(r.st)
                   THEN r.st ELSE advance_measure(r.st)
          /\ events' = r.events
          /\ tja' = tja \o r.out
          /\ flushed' = Flushed(r, FALSE)
          /\ scan_log' = Append(scan_log, Decided(r))
          /\ i_measure_begin' = IF r.failed THEN i_measure_begin ELSE i
          /\ pc' = IF r.failed \/ ticks_per_measure_raises(r.st)
                   THEN "failed" ELSE pc
    /\ nflushed' = nflushed + 1
    /\ UNCHANGED <<i, timing_events, lane_events, chart_state, scan_balloons,
                   silent_log, NOTE_SYMBOL, ticks_per_beat, ticks_gap, laneVars>>

\* A for body that does not look at measure-initial time signatures.
SyncMeasureBegin_Skipped ==
    /\ Scanning
    /\ i < Len(events)
    /\ ~ticks_per_measure_raises(st)
    /\ ~(get_tick_measure_end(st) <= events[i + 1].tick_abs)
    /\ i' = i + 1
    /\ UNCHANGED <<st, pc, events, i_measure_begin, tja, flushed, nflushed,
                   timing_events, lane_events, chart_state, scan_balloons,
                   scan_log, silent_log,
                   NOTE_SYMBOL, ticks_per_beat, ticks_gap, laneVars>>

\* The rest of the for body once the while loop has ended (lines 187-191).
SyncMeasureBegin ==
    /\ Scanning
    /\ i < Len(events)
    /\ ~ticks_per_measure_raises(st)
    /\ ~(get_tick_measure_end(st) <= events[i + 1].tick_abs)
    /\ LET e == events[i + 1]
       IN st' = IF e.tick_abs = st.tick_measure_begin /\ e.msg.type = "time_signature"
                THEN [st EXCEPT !.tsign_upper = e.msg.numerator,
                                !.tsign_lower = e.msg.denominator]
                ELSE st
    /\ i' = i + 1
    /\ UNCHANGED <<pc, events, i_measure_begin, tja, flushed, nflushed,
                   timing_events, lane_events, chart_state, scan_balloons,
                   scan_log, silent_log,
                   NOTE_SYMBOL, ticks_per_beat, ticks_gap, laneVars>>

\* "emit events in the last measure" (line 194); scan_chart returns.
ScanLastMeasure ==
    /\ Scanning
    /\ i = Len(events)
    /\ ~ticks_per_measure_raises(st)
    /\ LET r == scan_measure(st, events, i_measure_begin, Len(events),
                             NOTE_SYMBOL, pc = "emit")
       IN /\ st' = r.st
          /\ events' = r.events
          /\ tja' = tja \o r.out
          /\ flushed' = Flushed(r, TRUE)
          /\ scan_log' = Append(scan_log, Decided(r))
          /\ pc' = IF r.failed THEN "failed"
                   ELSE IF pc = "silent" THEN "scanned" ELSE "written"
    /\ nflushed' = nflushed + 1
    /\ UNCHANGED <<i, i_measure_begin, timing_events, lane_events, chart_state,
                   scan_balloons, silent_log,
                   NOTE_SYMBOL, ticks_per_beat, ticks_gap, laneVars>>

\* Lines 340-350: the BALLOON line of a scanned lane, '#START', and
\* chart_output_state = copy(chart_state); scan_chart begins with the file.
BeginEmitScan ==
    /\ \/ pc = "scanned"
       \/ pc = "lane" /\ ~is_balloon_note(NOTE_SYMBOL)
    /\ scan_balloons' = IF pc = "scanned" THEN BalloonList(st, events) ELSE NoList
    /\ tja' = tja \o (IF scan_balloons' # NoList
                      THEN <<"BALLOON:" \o JoinHits(scan_balloons'[1]), "\n", "\n">>
                      ELSE <<>>)
                  \o <<"#START", "\n">>
    /\ st' = chart_state
    /\ i' = 0
    /\ i_measure_begin' = 0
    /\ flushed' = None
    /\ nflushed' = 0
    /\ silent_log' = scan_log
    /\ scan_log' = <<>>
    /\ pc' = "emit"
    /\ UNCHANGED <<timing_events, lane_events, events, chart_state,
                   NOTE_SYMBOL, ticks_per_beat, ticks_gap, laneVars>>

\* Line 353.
EndChart ==
    /\ pc = "written"
    /\ tja' = tja \o <<"#END", "\n">>
    /\ pc' = "done"
    /\ UNCHANGED <<timing_events, lane_events, events, chart_state, st, i,
                   i_measure_begin, scan_balloons, flushed, nflushed,
                   scan_log, silent_log,
                   NOTE_SYMBOL, ticks_per_beat, ticks_gap, laneVars>>

Next ==
    \/ OpenChart
    \/ BeginSilentScan
    \/ RaiseAtMeasureEnd
    \/ StepOverMeasure
    \/ SyncMeasureBegin
    \/ ScanLastMeasure
    \/ BeginEmitScan
    \/ EndChart

Spec == Init /\ [][Next]_vars

(***************************************************************************)
(* The output of a lane without notes under a single 4/4, 120 BPM timing:  *)
(* the timing events only restate the defaults.                            *)
(***************************************************************************)
\* The output of the lane has not begun.
ChartNotBegun ==
    /\ pc = "start"
    /\ events = <<>>
    /\ chart_state = None
    /\ st = None
    /\ i = 0
    /\ i_measure_begin = 0
    /\ tja = <<>>
    /\ scan_balloons = NoList
    /\ flushed = None
    /\ nflushed = 0
    /\ scan_log = <<>>
    /\ silent_log = <<>>

DefaultTimingMsgs ==
    {[type |-> "time_signature", numerator |-> 4, denominator |-> 4],
     [type |-> "set_tempo", tempo |-> DefaultTempo]}

DefaultTimingInputs ==
    {[j \in DOMAIN q |-> ChartEvent(q[j][1], q[j][2])] :
        q \in {q \in SeqsUpTo(DefaultTimingMsgs \X (0..MaxSilenceTick), MaxTiming) :
                  \A j \in 1..(Len(q) - 1) : q[j][2] <= q[j + 1][2]}}

SilenceInit ==
    /\ NOTE_SYMBOL \in ScanSymbols
    /\ ticks_per_beat \in TicksPerBeats
    /\ ticks_gap = TicksGap(NOTE_SYMBOL, ticks_per_beat, 1, 192)
    /\ timing_events \in DefaultTimingInputs
    /\ lane_events = <<>>
    /\ ChartNotBegun
    /\ LaneIdle

\* The steps of a conversion in which nothing raises.
ChartNext ==
    \/ OpenChart
    \/ BeginSilentScan
    \/ StepOverMeasure
    \/ SyncMeasureBegin
    \/ ScanLastMeasure
    \/ BeginEmitScan
    \/ EndChart

SilenceSpec == SilenceInit /\ [][ChartNext]_vars

(***************************************************************************)
(* From the raw note events to the timeline of a lane: the lane assignor,  *)
(* the regeneration, and the merge with the timing events.                 *)
(***************************************************************************)
MergeTimingMsgs ==
    {[type |-> "time_signature", numerator |-> 2, denominator |-> 4],
     [type |-> "set_tempo", tempo |-> 333333]}

MergeTimingTicks == {0, 2}

\* timing_events after the sort by tick_abs.
MergeTimingInputs ==
    {[j \in DOMAIN q |-> ChartEvent(q[j][1], q[j][2])] :
        q \in {q \in SeqsUpTo(MergeTimingMsgs \X MergeTimingTicks, MaxTiming) :
                  \A j \in 1..(Len(q) - 1) : q[j][2] <= q[j + 1][2]}}

MergeInit ==
    /\ NOTE_SYMBOL \in LaneSymbols
    /\ ticks_per_beat = 1
    /\ \E g \in LongGaps : ticks_gap = TicksGap(NOTE_SYMBOL, ticks_per_beat, g[1], g[2])
    /\ lane_pc = "raw"
    /\ raw_count = 0
    /\ raw_tick = 0
    /\ notes = <<>>
    /\ on_notes = <<>>
    /\ note_events = <<>>
    /\ new_events = <<>>
    /\ last_op = NoOp
    /\ timing_events \in MergeTimingInputs
    /\ lane_events = <<>>
    /\ ChartNotBegun

\* Lines 325-333 for one lane: its events merged with the timing events.
MergeLane ==
    /\ lane_pc = "done"
    /\ pc = "start"
    /\ \E key \in DOMAIN new_events :
          /\ lane_events' = new_events[key]
          /\ events' = merge_sorted(timing_events, new_events[key])
    /\ pc' = "merged"
    /\ UNCHANGED <<timing_events, chart_state, st, i, i_measure_begin, tja,
                   scan_balloons, flushed, nflushed, scan_log, silent_log,
                   NOTE_SYMBOL, ticks_per_beat, ticks_gap, laneVars>>

MergeNext == RawNoteEvent \/ Regenerate \/ MergeLane

MergeSpec == MergeInit /\ [][MergeNext]_vars

(***************************************************************************)
(* A single long note at 480 ticks per beat with the default --long-gap,   *)
(* carried from the raw note events through the lane assignor to the       *)
(* output of its lane.                                                     *)
(***************************************************************************)
ExampleSymbols == {"7", "5"}
ExamplePitches == {45, 57, 69}
ExampleOffTicks == {5, 240, 480, 1920}
ExampleTimingInputs ==
    {<<>>,
     <<ChartEvent([type |-> "set_tempo", tempo |-> DefaultTempo], 0)>>,
     <<ChartEvent([type |-> "set_tempo", tempo |-> 250000], 0)>>}

\* The assignor's state after a note-on at tick 0 and its note-off at tick off.
ExampleAssigned(pitch, off, gap, sym) ==
    HandleRaw(HandleRaw([notes |-> <<>>, on_notes |-> <<>>, note_events |-> <<>>,
                         op |-> NoOp],
                        [type |-> "note_on", channel |-> 0, note |-> pitch,
                         velocity |-> 64], 0, gap, sym),
              [type |-> "note_off", channel |-> 0, note |-> pitch, velocity |-> 64],
              off, gap, sym)

ExampleInit ==
    /\ NOTE_SYMBOL \in ExampleSymbols
    /\ ticks_per_beat = 480
    /\ ticks_gap = TicksGap(NOTE_SYMBOL, ticks_per_beat, 1, 192)
    /\ timing_events \in ExampleTimingInputs
    /\ \E pitch \in ExamplePitches, off \in ExampleOffTicks :
          LET S == ExampleAssigned(pitch, off, ticks_gap, NOTE_SYMBOL)
          IN /\ notes = S.notes
             /\ on_notes = S.on_notes
             /\ note_events = S.note_events
             /\ new_events = Regenerated(S.notes, S.note_events, NOTE_SYMBOL)
             /\ raw_tick = off
    /\ raw_count = 2
    /\ last_op = NoOp
    /\ lane_pc = "done"
    /\ lane_events = new_events[<<0, 0>>]
    /\ ChartNotBegun

ExampleSpec == ExampleInit /\ [][ChartNext]_vars

(***************************************************************************)
(* Properties of the measure quantizer (Spec).                             *)
(***************************************************************************)
CellSymbols == {"0", "7", "8"} \cup ScanSymbols

\* The number of cells among the tokens toks.
RECURSIVE CellCount(_)
CellCount(toks) ==
    IF toks = <<>> THEN 0
    ELSE (IF Head(toks) \in CellSymbols THEN 1 ELSE 0) + CellCount(Tail(toks))

\* The number of balloon-close symbols among the tokens toks.
RECURSIVE CloseCount(_)
CloseCount(toks) ==
    IF toks = <<>> THEN 0
    ELSE (IF Head(toks) = "8" THEN 1 ELSE 0) + CloseCount(Tail(toks))

\* The cells among the tokens toks, in order.
Cells(toks) == SelectSeq(toks, LAMBDA t : t \in CellSymbols)

\* A measure has been flushed to the file by the running scan.
WroteMeasure == pc \in {"emit", "written"} /\ nflushed > 0

\* ticksPerMeasure / unit of the flushed measure.
FlushedCellCount == (flushed.tick_end - flushed.tick_beg) \div flushed.tick_gcd

\* C1 (as claimed): every measure flushed to the file, one with an empty event
\* range included, is written as exactly ticksPerMeasure / unit cells, and an
\* empty event range gives a measure made only of '0' cells.
C1_EveryMeasureFullGrid ==
    WroteMeasure =>
        /\ CellCount(flushed.out) = FlushedCellCount
        /\ CellCount(flushed.out) * flushed.tick_gcd
               = flushed.tick_end - flushed.tick_beg
        /\ flushed.hi = flushed.lo =>
               Cells(flushed.out) = Zeros(FlushedCellCount)

\* C1 (amended): a measure flushed to the file with a non-empty event range is
\* written as exactly ticksPerMeasure / unit cells, so the cell durations sum
\* to the measure's length; a measure with an empty event range is written as
\* a bare ',' with no cell.
C1_FullGridUnlessEmptyRange ==
    WroteMeasure =>
        IF flushed.hi > flushed.lo
        THEN /\ CellCount(flushed.out) = FlushedCellCount
             /\ CellCount(flushed.out) * flushed.tick_gcd
                    = flushed.tick_end - flushed.tick_beg
        ELSE flushed.out = <<",", "\n">>

\* A measure of at least three cells holding a note has been written after a
\* measure with an empty event range.
C1_Witness ==
    /\ WroteMeasure
    /\ nflushed >= 2
    /\ flushed.hi > flushed.lo
    /\ FlushedCellCount >= 3
    /\ CellCount(flushed.out) = FlushedCellCount
    /\ \E j \in 1..Len(flushed.out) : flushed.out[j] = NOTE_SYMBOL
    /\ \E j \in 1..(Len(tja) - 2) : tja[j] = "\n" /\ tja[j + 1] = ","

\* C2 (as claimed): a time signature whose tick falls strictly inside the
\* flushed measure ends that measure at the change's tick: the written grid
\* spans the ticks up to the change, and the next measure starts at it.
C2_SignatureChangeEndsMeasure ==
    (Scanning /\ nflushed > 0 /\ ~flushed.last) =>
        \A k \in (flushed.lo + 1)..flushed.hi :
            (/\ events[k].msg.type = "time_signature"
             /\ flushed.tick_beg < events[k].tick_abs
             /\ events[k].tick_abs < flushed.tick_end)
            => /\ st.tick_measure_begin = events[k].tick_abs
               /\ flushed.write =>
                      CellCount(flushed.out) * flushed.tick_gcd
                          = events[k].tick_abs - flushed.tick_beg

\* len(chart_scan_state.balloons), 0 for None.
BalloonListLength == IF scan_balloons = NoList THEN 0 ELSE Len(scan_balloons[1])

\* C10 (as claimed): for a balloon lane, the length of the balloon list of the
\* silent scan equals the number of balloon-close symbols written by the
\* writing scan, for every timeline.
C10_BalloonListMatchesCloses ==
    (pc = "done" /\ is_balloon_note(NOTE_SYMBOL)) =>
        BalloonListLength = CloseCount(tja)

\* The baseline state main builds before the lanes are written.
Baseline == SeedTempo(ChartState(ticks_per_beat), timing_events)

\* C11: the writing scan of a balloon lane decides, measure by measure, what
\* the silent scan decided (boundaries, unit, symbols, balloon records), it
\* raises no exception the silent scan did not raise, and the baseline state
\* is left as it was built.
C11_ScansAgree ==
    /\ (is_balloon_note(NOTE_SYMBOL) /\ pc \in {"emit", "written", "done"}) =>
          /\ Len(scan_log) <= Len(silent_log)
          /\ \A j \in 1..Len(scan_log) : scan_log[j] = silent_log[j]
          /\ pc \in {"written", "done"} => Len(scan_log) = Len(silent_log)
    /\ (is_balloon_note(NOTE_SYMBOL) /\ pc = "failed") => silent_log = <<>>
    /\ pc \in {"lane", "silent", "scanned", "emit", "written", "done"} =>
          chart_state = Baseline

\* Both scans of a balloon lane are over: several measures, a time signature
\* change, and a balloon that was opened and closed.
C11_Witness ==
    /\ is_balloon_note(NOTE_SYMBOL)
    /\ pc = "done"
    /\ Len(silent_log) >= 2
    /\ scan_log = silent_log
    /\ \E j \in 1..Len(timing_events) : timing_events[j].msg.type = "time_signature"
    /\ BalloonListLength >= 1
    /\ CloseCount(tja) >= 1

\* The state scan_measure passes through once it has processed the events of
\* Python indices i_measure_begin .. k - 1 of the measure the running scan is
\* collecting (k = i_measure_begin: nothing processed yet).
ScanPrefix(k) ==
    LET tick_beg == st.tick_measure_begin
        tick_end == get_tick_measure_end(st)
        tick_gcd == GcdAll(RemoveDuplications(
                        TickRels(events, i_measure_begin, i, tick_beg, tick_end)))
    IN ScanEvents([st |-> st, events |-> events, out |-> <<>>,
                   is_line_start |-> TRUE, idiv_last |-> 0,
                   note_symbol_last |-> "0", failed |-> FALSE],
                  i_measure_begin, k, tick_beg, tick_gcd, NOTE_SYMBOL, FALSE)

\* The balloon records of a, as the events they refer to.
Records(a) ==
    IF a.st.balloons = NoList THEN <<>>
    ELSE [j \in 1..Len(a.st.balloons[1]) |-> a.events[a.st.balloons[1][j]]]

\* Only the last record may be unterminated, and a closed record does not end
\* before it starts.
OneOpenBalloonAtMost(a) ==
    /\ \A j \in 1..(Len(Records(a)) - 1) : Records(a)[j].usec_end_abs >= 0
    /\ \A j \in 1..Len(Records(a)) :
          \/ Records(a)[j].usec_end_abs = -1
          \/ Records(a)[j].usec_end_abs >= Records(a)[j].usec_abs

\* What processing the event of Python index k does to the balloon records
\* (an exception raised before it leaves it unprocessed).
BalloonStep(k) ==
    LET a == ScanPrefix(k)
        b == ScanPrefix(k + 1)
        e == events[k + 1]
    IN /\ (~a.failed /\ e.msg.type = "note_on" /\ BalloonOpen(a)) =>
              /\ b.st.balloons = a.st.balloons
              /\ Records(b) = Records(a)
              /\ b.note_symbol_last # NOTE_SYMBOL
       /\ (~a.failed /\ e.msg.type = "note_off" /\ BalloonOpen(a)) =>
              /\ b.st.balloons = a.st.balloons
              /\ Records(b)[Len(Records(b))].usec_end_abs = get_usec_at(a.st, e.tick_abs)
              /\ \A j \in 1..(Len(Records(b)) - 1) : Records(b)[j] = Records(a)[j]
              /\ ~BalloonOpen(b)

\* C12: at every point of a scan of a sustain lane at most one balloon record
\* is unterminated and it is the last of the list; a note-on met while a
\* balloon is open adds no record and no open symbol; a note-off closes the
\* last record at get_usec_at(tick); a closed record has usec_end >= usec_start.
C12_OneOpenBalloon ==
    (Scanning /\ is_long_note(NOTE_SYMBOL) /\ ~ticks_per_measure_raises(st)) =>
        /\ \A k \in i_measure_begin..i : OneOpenBalloonAtMost(ScanPrefix(k))
        /\ \A k \in i_measure_begin..(i - 1) : BalloonStep(k)

\* A scan holds a closed balloon record followed by an open one, which the
\* next event closes.
C12_Witness ==
    /\ Scanning
    /\ ~ticks_per_measure_raises(st)
    /\ is_long_note(NOTE_SYMBOL)
    /\ i >= i_measure_begin + 2
    /\ Len(Records(ScanPrefix(i - 1))) = 2
    /\ Records(ScanPrefix(i - 1))[1].usec_end_abs > Records(ScanPrefix(i - 1))[1].usec_abs
    /\ BalloonOpen(ScanPrefix(i - 1))
    /\ ~BalloonOpen(ScanPrefix(i))

\* ticks_per_beat times the exact time in usec of the event of index k of the
\* merged timeline: the tempo segments before it, summed without rounding
\* (j: next index to look at, cp and upb: start and tempo of the open segment).
RECURSIVE ExactUsecTimesTpb(_, _, _, _, _)
ExactUsecTimesTpb(k, j, cp, upb, acc) ==
    IF j >= k THEN acc + (events[k].tick_abs - cp) * upb
    ELSE IF events[j].msg.type = "set_tempo"
         THEN ExactUsecTimesTpb(k, j + 1, events[j].tick_abs, events[j].msg.tempo,
                                acc + (events[j].tick_abs - cp) * upb)
         ELSE ExactUsecTimesTpb(k, j + 1, cp, upb, acc)

\* The direct value: the exact time of event k, rounded down once.
DirectUsec(k) == ExactUsecTimesTpb(k, 1, 0, DefaultTempo, 0) \div ticks_per_beat

\* The number of re-anchorings (tempo events) before event k.
AnchorsBefore(k) ==
    Cardinality({j \in 1..(k - 1) : events[j].msg.type = "set_tempo"})

\* The note-ons a scan has time-stamped.
Stamped == {k \in 1..Len(events) :
               events[k].msg.type = "note_on" /\ events[k].usec_abs >= 0}

\* C13 (as claimed): the time a scan gives a note after a chain of
\* re-anchorings equals the direct value with zero error.
C13_NoDrift ==
    pc \in {"silent", "scanned", "emit", "written", "done"} =>
        \A k \in Stamped : events[k].usec_abs = DirectUsec(k)

\* C13 (amended): the time a scan gives a note is never ahead of the direct
\* value and falls behind it by at most one usec per re-anchoring before the
\* note; with no re-anchoring before it the two are equal.
C13_DriftAtMostOnePerAnchor ==
    pc \in {"silent", "scanned", "emit", "written", "done"} =>
        \A k \in Stamped :
            /\ events[k].usec_abs <= DirectUsec(k)
            /\ DirectUsec(k) - events[k].usec_abs <= AnchorsBefore(k)

\* A note time-stamped after two re-anchorings, the second at a later tick and
\* without a change of tempo, one usec behind the direct value.
C13_Witness ==
    /\ pc = "done"
    /\ \E k \in Stamped :
          /\ AnchorsBefore(k) = 2
          /\ timing_events[1].msg.tempo = timing_events[2].msg.tempo
          /\ timing_events[2].tick_abs > timing_events[1].tick_abs
          /\ DirectUsec(k) - events[k].usec_abs = 1

\* The tick of the last tempo event among the first n events of the merged
\* timeline, 0 when there is none.
LastTempoTick(n) ==
    LET T == {j \in 1..n : events[j].msg.type = "set_tempo"}
    IN IF T = {} THEN 0 ELSE events[SetMax(T)].tick_abs

\* What processing the tempo event of Python index k does: the anchor moves
\* to the event's tick at the time the old tempo gives, then the tempo changes.
TempoStep(k) ==
    LET a == ScanPrefix(k)
        b == ScanPrefix(k + 1)
        e == events[k + 1]
    IN (~a.failed /\ e.msg.type = "set_tempo") =>
           /\ b.st.usec_checkpoint = get_usec_at(a.st, e.tick_abs)
           /\ b.st.tick_checkpoint = e.tick_abs
           /\ b.st.usec_per_beat = e.msg.tempo

\* C14: a scan re-anchors at a tempo event's tick under the old tempo before it
\* changes the tempo; at every point of a scan tick_checkpoint is the tick of
\* the last tempo event applied, no event processed lies before the anchor,
\* and the times given to the notes do not decrease along the timeline.
C14_AnchorBeforeTempoChange ==
    /\ (Scanning /\ ~ticks_per_measure_raises(st)) =>
          /\ \A k \in i_measure_begin..(i - 1) : TempoStep(k)
          /\ \A k \in i_measure_begin..i :
                ~ScanPrefix(k).failed =>
                    /\ ScanPrefix(k).st.tick_checkpoint = LastTempoTick(k)
                    /\ k < Len(events) =>
                          /\ events[k + 1].tick_abs >= ScanPrefix(k).st.tick_checkpoint
                          /\ get_usec_at(ScanPrefix(k).st, events[k + 1].tick_abs)
                                 >= ScanPrefix(k).st.usec_checkpoint
    /\ pc \in {"silent", "scanned", "emit", "written", "done"} =>
          \A j, k \in Stamped : j < k => events[j].usec_abs <= events[k].usec_abs

\* A scan has applied a tempo change at a tick after 0, re-anchoring at a time
\* after 0, and then time-stamped a note at a later tick.
C14_Witness ==
    /\ Scanning
    /\ st.tick_checkpoint > 0
    /\ st.usec_checkpoint > 0
    /\ st.usec_per_beat # DefaultTempo
    /\ \E k \in Stamped :
          /\ k <= i
          /\ events[k].tick_abs > st.tick_checkpoint
          /\ events[k].usec_abs > st.usec_checkpoint

\* The time signature events of the flushed range at the measure's first tick.
MeasureInitialSignatures ==
    {k \in (flushed.lo + 1)..flushed.hi :
        /\ events[k].msg.type = "time_signature"
        /\ events[k].tick_abs = flushed.tick_beg}

\* C15: when a measure is flushed (by either scan), a time signature event at
\* the measure's first tick has already been applied: the measure's length is
\* that of the last such signature, also for the first measure (tick 0).
C15_MeasureInitialSignatureApplied ==
    (/\ pc \in {"silent", "scanned", "emit", "written", "done"}
     /\ nflushed > 0
     /\ MeasureInitialSignatures # {}) =>
            LET e == events[SetMax(MeasureInitialSignatures)]
            IN flushed.tick_end - flushed.tick_beg
                   = get_ticks_per_measure(
                         [ChartState(ticks_per_beat)
                             EXCEPT !.tsign_upper = e.msg.numerator,
                                    !.tsign_lower = e.msg.denominator])

\* A measure starting after tick 0 has been flushed with the length of the
\* signature set at its first tick, after a first measure whose length was
\* set by a signature at tick 0; neither length is that of 4/4.
C15_Witness ==
    /\ pc \in {"emit", "written"}
    /\ nflushed >= 2
    /\ flushed.tick_beg > 0
    /\ MeasureInitialSignatures # {}
    /\ flushed.tick_end - flushed.tick_beg # 4 * ticks_per_beat
    /\ Len(timing_events) = 2
    /\ timing_events[1].msg.type = "time_signature"
    /\ timing_events[1].tick_abs = 0
    /\ timing_events[2].tick_abs = flushed.tick_beg
    /\ scan_log[1].tick_end = flushed.tick_beg
    /\ scan_log[1].tick_end # 4 * ticks_per_beat

\* C16: in hit mode the only lanes are (channel, 0): every note-on of a
\* channel is in that lane, no slot is ever occupied, and every note ends at
\* its own tick.
C16_HitModeSingleLane ==
    ~SustainMode =>
        /\ \A key \in DOMAIN note_events : key[2] = 0
        /\ \A key \in DOMAIN new_events : key[2] = 0
        /\ \A ch \in DOMAIN on_notes : on_notes[ch] = <<>>
        /\ \A id \in 1..Len(notes) :
              /\ notes[id].tick_end_abs = notes[id].tick_abs
              /\ <<notes[id].msg.channel, 0>> \in DOMAIN note_events
              /\ LaneOf(id) = <<notes[id].msg.channel, 0>>
        /\ lane_pc = "done" =>
              \A key \in DOMAIN note_events :
                  new_events[key] = LaneNotes(key)

\* A hit-mode conversion of three note-ons, two of them of different pitches
\* at the same tick, with note-offs among the raw events.
C16_Witness ==
    /\ ~SustainMode
    /\ lane_pc = "done"
    /\ raw_count > Len(notes)
    /\ Len(notes) >= 3
    /\ \E a, b \in 1..Len(notes) :
          /\ a < b
          /\ notes[a].tick_abs = notes[b].tick_abs
          /\ notes[a].msg.note # notes[b].msg.note
    /\ Len(new_events[<<0, 0>>]) = Len(notes)

\* C17 (as claimed): when the conversion fails (the header or a scan of the
\* lane raises), nothing is left written in the output file.
C17_NoOutputOnFailure ==
    pc = "failed" => tja = <<>>

\* C18 (as claimed): for every time signature of the input, the measure length
\* and the quantization unit of every flushed measure are at least 1, and a
\* conversion whose header was written does not fail on a time signature.
C18_NoSignatureFailsAScan ==
    /\ (pc \in {"silent", "scanned", "emit", "written", "done"} /\ nflushed > 0) =>
          /\ flushed.tick_end - flushed.tick_beg >= 1
          /\ flushed.tick_gcd >= 1
    /\ (pc = "failed" /\ ~tempo2bpm_raises(chart_state.usec_per_beat)) =>
          ~ticks_per_measure_raises(st)

(***************************************************************************)
(* Properties of a lane without notes (SilenceSpec).                       *)
(***************************************************************************)
\* The number of measures written: every measure ends with a ','.
RECURSIVE MeasureCount(_)
MeasureCount(toks) ==
    IF toks = <<>> THEN 0
    ELSE (IF Head(toks) = "," THEN 1 ELSE 0) + MeasureCount(Tail(toks))

\* The span of the input in ticks: the tick of the last event.
InputSpan == IF events = <<>> THEN 0 ELSE events[Len(events)].tick_abs

\* C19: a lane without notes under a single 4/4, 120 BPM timing is written as
\* one measure per ticks_per_beat * 4 ticks: the measures start at the
\* multiples of ticks_per_beat * 4 up to the last event's tick, each of
\* ticks_per_beat * 4 ticks, and every cell written is '0'.
C19_SilentLaneMeasures ==
    (/\ pc = "done"
     /\ lane_events = <<>>
     /\ \A j \in 1..Len(timing_events) : timing_events[j].msg \in DefaultTimingMsgs) =>
        /\ MeasureCount(tja) = InputSpan \div (ticks_per_beat * 4) + 1
        /\ Len(scan_log) = MeasureCount(tja)
        /\ \A j \in 1..Len(scan_log) :
              /\ scan_log[j].tick_beg = (j - 1) * ticks_per_beat * 4
              /\ scan_log[j].tick_end = j * ticks_per_beat * 4
        /\ Cells(tja) = Zeros(CellCount(tja))

\* A lane without notes has been written as three measures, the timing events
\* lying after tick 0, with silent cells in it.
C19_Witness ==
    /\ pc = "done"
    /\ lane_events = <<>>
    /\ Len(timing_events) = 2
    /\ timing_events[1].tick_abs > 0
    /\ MeasureCount(tja) = 3
    /\ InputSpan >= 2 * ticks_per_beat * 4
    /\ CellCount(tja) >= 2

(***************************************************************************)
(* Properties of the single long note (ExampleSpec).                       *)
(***************************************************************************)
\* Balloon mode, 480 ticks per beat, 500000 usec per beat, a minimum gap of
\* 10 ticks, pitch 69 on at tick 0 and off at tick 240.
ExampleCase ==
    /\ NOTE_SYMBOL = "7"
    /\ ticks_per_beat = 480
    /\ ticks_gap = 10
    /\ \A j \in 1..Len(timing_events) :
          timing_events[j].msg = [type |-> "set_tempo", tempo |-> 500000]
    /\ Len(notes) = 1
    /\ notes[1].msg.note = 69
    /\ notes[1].tick_abs = 0
    /\ lane_pc = "done"
    /\ raw_count = 2
    /\ raw_tick = 240

\* C20: in that case the note ends at tick 240, its balloon record spans
\* usec_at(240) - usec_at(0) = 250000 usec, and the BALLOON header lists
\* exactly one count, 110.
C20_WorkedExample ==
    ExampleCase =>
        /\ notes[1].tick_end_abs = 240
        /\ Len(lane_events) = 2
        /\ lane_events[2].msg.type = "note_off"
        /\ lane_events[2].tick_abs = 240
        /\ pc = "scanned" =>
              /\ get_usec_at(st, 240) - get_usec_at(chart_state, 0) = 250000
              /\ BalloonList(st, events) =
                    SomeList(<<[note |-> 69, usec_abs |-> 0, usec_end_abs |-> 250000]>>)
        /\ pc \in {"emit", "written", "done"} =>
              /\ scan_balloons =
                    SomeList(<<[note |-> 69, usec_abs |-> 0, usec_end_abs |-> 250000]>>)
              /\ \E j \in 1..Len(tja) : tja[j] = "BALLOON:110"
              /\ \A j \in 1..Len(tja) :
                    (Len(tja[j]) >= 8 /\ SubSeq(tja[j], 1, 8) = "BALLOON:") =>
                        tja[j] = "BALLOON:110"

\* The lane of the example has been written to the end.
C20_Witness ==
    /\ ExampleCase
    /\ pc = "done"
    /\ \E j \in 1..Len(tja) : tja[j] = "BALLOON:110"

(***************************************************************************)
(* Properties of note-ons that are never closed (OverlapSpec).             *)
(***************************************************************************)
\* Sustain mode, two note-ons of distinct pitch on one channel, the first at
\* tick 0 and the second at tick 100, and no note-off.
OverlapCase ==
    /\ SustainMode
    /\ raw_count = 2
    /\ Len(notes) = 2
    /\ notes[1].msg.note # notes[2].msg.note
    /\ notes[1].tick_abs = 0
    /\ notes[2].tick_abs = 100

\* The two notes are in the lanes of polyphony positions 0 and 1.
OverlapPositions ==
    /\ DOMAIN note_events = {<<0, 0>>, <<0, 1>>}
    /\ note_events[<<0, 0>>] = <<1>>
    /\ note_events[<<0, 1>>] = <<2>>

\* C21 as stated: each of the two notes ends no later than the other's start
\* minus the minimum gap, and they take the polyphony positions 0 and 1.
C21_EachEndsBeforeTheOther ==
    OverlapCase =>
        /\ notes[1].tick_end_abs <= notes[2].tick_abs - ticks_gap
        /\ notes[2].tick_end_abs <= notes[1].tick_abs - ticks_gap
        /\ OverlapPositions

\* C21 as the code has it: each of the two notes ends at its own start plus
\* the minimum gap, neither is cut by the other, and they take the polyphony
\* positions 0 and 1; both reach their lanes as note-on/note-off pairs.
C21_EachEndsAtMinimumLength ==
    OverlapCase =>
        /\ notes[1].tick_end_abs = notes[1].tick_abs + ticks_gap
        /\ notes[2].tick_end_abs = notes[2].tick_abs + ticks_gap
        /\ OverlapPositions
        /\ lane_pc = "done" =>
              /\ DOMAIN new_events = {<<0, 0>>, <<0, 1>>}
              /\ Len(new_events[<<0, 0>>]) = 2
              /\ Len(new_events[<<0, 1>>]) = 2
              /\ new_events[<<0, 0>>][2].tick_abs = ticks_gap
              /\ new_events[<<0, 1>>][2].tick_abs = 100 + ticks_gap

\* The two note-ons have been regenerated, with the default gap at 480 ticks
\* per beat.
C21_Witness ==
    /\ OverlapCase
    /\ ticks_per_beat = 480
    /\ ticks_gap = 10
    /\ lane_pc = "done"
    /\ notes[2].tick_end_abs = 110

(***************************************************************************)
(* Properties of the timeline of a lane (MergeSpec).                       *)
(***************************************************************************)
\* The events of the timeline that are note events, and those that are not.
NoteEventsOf(evs) == SelectSeq(evs, LAMBDA e : IsNoteType(e.msg.type))
TimingEventsOf(evs) == SelectSeq(evs, LAMBDA e : ~IsNoteType(e.msg.type))

\* The notes of lane key that end after their start.
SurvivingNotes(key) ==
    SelectSeq(LaneNotes(key), LAMBDA e : e.tick_end_abs > e.tick_abs)

\* The lane's events are the note-on/note-off pairs of the surviving notes of
\* one lane, each note-off after its note-on.
AlternatingPairs ==
    /\ Len(lane_events) % 2 = 0
    /\ \A j \in 1..Len(lane_events) :
          IF j % 2 = 1
          THEN /\ lane_events[j].msg.type = "note_on"
               /\ lane_events[j + 1].msg.type = "note_off"
               /\ lane_events[j + 1].msg.note = lane_events[j].msg.note
               /\ lane_events[j + 1].tick_abs = lane_events[j].tick_end_abs
               /\ lane_events[j + 1].tick_abs > lane_events[j].tick_abs
          ELSE lane_events[j].msg.type = "note_off"
    /\ \E key \in DOMAIN new_events :
          /\ lane_events = new_events[key]
          /\ IF key \in DOMAIN note_events
             THEN /\ Len(SurvivingNotes(key)) * 2 = Len(lane_events)
                  /\ \A j \in 1..Len(SurvivingNotes(key)) :
                        lane_events[2 * j - 1] = SurvivingNotes(key)[j]
             ELSE lane_events = <<>>

\* C22: the timeline of a lane is ascending by tick, holds the timing events
\* and the lane's events each exactly once and in their order, and no timing
\* event comes after a note event of the same tick; in sustain mode the
\* lane's events are the note-on/note-off pairs of the lane's notes that end
\* after their start, each note-off after its note-on.
C22_MergedTimeline ==
    pc = "merged" =>
        /\ \A j \in 1..(Len(events) - 1) : events[j].tick_abs <= events[j + 1].tick_abs
        /\ Len(events) = Len(timing_events) + Len(lane_events)
        /\ TimingEventsOf(events) = timing_events
        /\ NoteEventsOf(events) = lane_events
        /\ \A j \in 1..Len(events) : \A k \in (j + 1)..Len(events) :
              (events[j].tick_abs = events[k].tick_abs
                  /\ IsNoteType(events[j].msg.type)) => IsNoteType(events[k].msg.type)
        /\ SustainMode => AlternatingPairs

\* A sustain-mode lane of a surviving note and a dropped one, merged with a
\* timing event at the tick of the note-on and one at the tick of the
\* note-off.
C22_Witness ==
    /\ pc = "merged"
    /\ SustainMode
    /\ Len(lane_events) = 2
    /\ Len(timing_events) = 2
    /\ timing_events[1].tick_abs = lane_events[1].tick_abs
    /\ timing_events[2].tick_abs = lane_events[2].tick_abs
    /\ \E key \in DOMAIN note_events :
          /\ lane_events = new_events[key]
          /\ Len(note_events[key]) > Len(SurvivingNotes(key))

(***************************************************************************)
(* Properties of the measures a scan steps through (Spec).                 *)
(***************************************************************************)
\* The event of index k was processed by the scan_measure call logged as m
\* inside m's span, on m's grid: its offset from the measure's begin is a
\* multiple of the unit, and its cell index is one of the measure's cells.
InOwnMeasure(m, k) ==
    LET tick_rel == events[k].tick_abs - m.tick_beg
        cells == (m.tick_end - m.tick_beg) \div m.tick_gcd
    IN /\ m.tick_beg <= events[k].tick_abs
       /\ events[k].tick_abs < m.tick_end
       /\ tick_rel % m.tick_gcd = 0
       /\ 0 <= tick_rel \div m.tick_gcd
       /\ tick_rel \div m.tick_gcd < cells

\* C23 (as claimed): every event is processed by the scan_measure call of the
\* measure that contains its tick, with a cell index within that measure's
\* grid, so that events of distinct ticks in one measure take distinct cells.
C23_EventsInOwnMeasure ==
    pc \in {"silent", "scanned", "emit", "written", "done"} =>
        \A j \in 1..Len(scan_log) :
            /\ \A k \in (scan_log[j].lo + 1)..scan_log[j].hi :
                  InOwnMeasure(scan_log[j], k)
            /\ \A k1, k2 \in (scan_log[j].lo + 1)..scan_log[j].hi :
                  events[k1].tick_abs # events[k2].tick_abs =>
                      (events[k1].tick_abs - scan_log[j].tick_beg) \div scan_log[j].tick_gcd
                          # (events[k2].tick_abs - scan_log[j].tick_beg) \div scan_log[j].tick_gcd

\* C24 (as claimed): successive measures tile the tick axis: the measure that
\* follows a flushed measure begins at that measure's begin plus the length
\* its grid was written with, also when a time signature was processed inside
\* the flushed measure.
C24_MeasuresTile ==
    pc \in {"silent", "scanned", "emit", "written", "done"} =>
        /\ \A j \in 1..(Len(scan_log) - 1) :
              scan_log[j + 1].tick_beg = scan_log[j].tick_end
        /\ (Scanning /\ scan_log # <<>>) =>
              st.tick_measure_begin = scan_log[Len(scan_log)].tick_end

\* A call of scan_chart has ended, by returning or by an exception (the
\* baseline tempo was printed, so that the lane's scans were begun).
ScanEnded ==
    \/ pc \in {"scanned", "written", "done"}
    \/ pc = "failed" /\ ~tempo2bpm_raises(chart_state.usec_per_beat)

\* C25 (as claimed): scan_chart comes to its end on every timeline: each pass
\* of the measure-stepping loop moves the measure begin forward by at least
\* one tick, an event is handed to a measure whose end is after the event's
\* tick, and when the scan has ended the flushed ranges hold every
\* event index exactly once, the last of them being the one final measure
\* flushed after the last event.
C25_ScanChartTerminates ==
    /\ \A j \in 1..(Len(scan_log) - 1) :
          scan_log[j + 1].tick_beg >= scan_log[j].tick_beg + 1
    /\ \A j \in 1..Len(scan_log) :
          \A k \in (scan_log[j].lo + 1)..scan_log[j].hi :
              scan_log[j].tick_end > events[k].tick_abs
    /\ ScanEnded =>
          /\ scan_log # <<>>
          /\ scan_log[1].lo = 0
          /\ \A j \in 1..(Len(scan_log) - 1) :
                /\ scan_log[j].lo <= scan_log[j].hi
                /\ scan_log[j + 1].lo = scan_log[j].hi
          /\ scan_log[Len(scan_log)].hi = Len(events)
          /\ ~scan_log[Len(scan_log)].failed
          /\ nflushed > 0
          /\ flushed.last

====
